---- MODULE Spec2Model ----
(***************************************************************************)
(* A model of coverage.py: the line-oriented C++ coverage instrumenter     *)
(* (SimpleCoverageInstrumenter.instrument, generate_coverage_header),      *)
(* remove_coverage, main's two modes, and the runtime that the generated   *)
(* prologue defines (the registry, COVER, print_coverage_report).          *)
(*                                                                         *)
(* Text.  A text is the list of its lines (Python's str.split on the       *)
(* newline character), and a line is a sequence of tokens <<kind, text>>:  *)
(*   <<"w", x>>      a maximal run of word characters (the regex class \w) *)
(*   <<"s", " ">>    ONE whitespace character                              *)
(*   <<"p", c>>      ONE punctuation character c                           *)
(*   <<"c", x>>      a comment x that holds a slash and no brace, colon   *)
(*                   or parenthesis (the NOCOVER markers, the prologue's   *)
(*                   marker lines)                                         *)
(*   <<"probe", id>> the call  COVER("id");  as instrument writes it       *)
(*   <<"h", x>>      a piece of the generated prologue's interior          *)
(* The line's string is the concatenation of its tokens' strings.  The     *)
(* regular expressions of the source are translated to matchers over       *)
(* these tokens.                                                           *)
(*                                                                         *)
(* A coverage-point id is the pair <<prefix, suffix>> that stands for the  *)
(* string prefix_suffix (IdText).                                          *)
(***************************************************************************)
EXTENDS Integers, Sequences, FiniteSets, TLC

VARIABLES
    src,              \* the source text the run starts from
    ops,              \* the operations applied so far, in order
    out,              \* the text the last operation produced (src before any)
    prev,             \* the text the last operation read
    coverage_points,  \* coverage_points of the last instrumenter
    pc,               \* the instrumented program: "off", "running" or "exited"
    uncovered,        \* the program's __uncovered_points
    total_points,     \* the program's __total_points
    executed,         \* the probes of the program, by position, that have run
    report            \* what print_coverage_report printed at exit

vars == <<src, ops, out, prev, coverage_points, pc,
          uncovered, total_points, executed, report>>

(***************************************************************************)
(* Bounds of the model and constants of the program                        *)
(***************************************************************************)
MaxLines == 3

MaxRuns == 2

LookaheadWindow == 10

DefaultIndent == 4

(***************************************************************************)
(* Tokens                                                                  *)
(***************************************************************************)
W(x) == <<"w", x>>

P(c) == <<"p", c>>

SP == <<"s", " ">>

Cmt(x) == <<"c", x>>

ProbeTok(id) == <<"probe", id>>

IsW(t) == t[1] = "w"

IsS(t) == t[1] = "s"

IsProbe(t) == t[1] = "probe"

NOCOVER_START == Cmt("/*NOCOVER_START*/")

NOCOVER_END == Cmt("/*NOCOVER_END*/")

HEADER_START == Cmt("// ===== COVERAGE TRACKING CODE =====")

HEADER_END == Cmt("// ===== END COVERAGE TRACKING =====")

\* The prologue's interior: the registry's declaration up to its brace, the
\* end of that declaration, the declaration of the total, and the part that
\* does not depend on the run (COVER, print_coverage_report, the reporter).
REGISTRY_OPEN == <<"h", "std::unordered_set<std::string> __uncovered_points = {">>

REGISTRY_CLOSE == <<"h", "};">>

TOTAL_DECL == <<"h", "const size_t __total_points = ">>

RUNTIME_CODE == <<"h", "void COVER(const std::string& point) {...}">>

\* Whether the token's string holds the character ch.
TokHas(t, ch) ==
    CASE t[1] = "p" -> t[2] = ch
      [] t[1] = "c" -> ch = "/"
      [] t[1] = "probe" -> ch \in {"(", ")", ";"}
      [] t = RUNTIME_CODE -> ch \in {"(", ")", "{", "}", ":", ";"}
      [] t = REGISTRY_OPEN -> ch \in {":", "{"}
      [] t = REGISTRY_CLOSE -> ch \in {"}", ";"}
      [] OTHER -> FALSE

LineHas(line, ch) == \E k \in DOMAIN line : TokHas(line[k], ch)

Contains(line, tok) == \E k \in DOMAIN line : line[k] = tok

\* 'COVER(' in line
HasCover(line) == \E k \in DOMAIN line : IsProbe(line[k]) \/ line[k] = RUNTIME_CODE

\* ' ' * n
Spaces(n) == [k \in 1..n |-> SP]

\* The first position at or after k that holds no whitespace (Len + 1: none).
SkipWs(line, k) ==
    IF k > Len(line) THEN Len(line) + 1
    ELSE CHOOSE j \in k..(Len(line) + 1) :
             /\ \A m \in k..(j - 1) : IsS(line[m])
             /\ j = Len(line) + 1 \/ ~IsS(line[j])

\* The token at position k, or a token no pattern matches when k is outside.
At(line, k) == IF k \in DOMAIN line THEN line[k] ELSE <<"eol", "">>

\* line.strip() != ''
NonBlank(line) == \E k \in DOMAIN line : ~IsS(line[k])

\* len(line) - len(line.lstrip())
LeadingWs(line) == SkipWs(line, 1) - 1

\* s.strip(), for a sequence of tokens
Strip(line) ==
    IF ~NonBlank(line) THEN <<>>
    ELSE LET a == SkipWs(line, 1)
             b == CHOOSE j \in DOMAIN line :
                      ~IsS(line[j]) /\ \A m \in (j + 1)..Len(line) : IsS(line[m])
         IN  SubSeq(line, a, b)

(***************************************************************************)
(* The regular expressions of instrument                                   *)
(***************************************************************************)
\* \w+\s+(\w+)\s*\([^)]*\) matched at position p; the name's position, or 0.
FuncAt(line, p) ==
    IF /\ IsW(At(line, p))
       /\ IsS(At(line, p + 1))
    THEN LET q == SkipWs(line, p + 1)
             r == SkipWs(line, q + 1)
         IN  IF /\ IsW(At(line, q))
                /\ At(line, r) = P("(")
                /\ \E t \in (r + 1)..Len(line) : TokHas(line[t], ")")
             THEN q
             ELSE 0
    ELSE 0

\* re.match(r'^[^/]*\b\w+\s+(\w+)\s*\([^)]*\)', line): the start positions the
\* pattern can take.  [^/]* is greedy, so the match is the rightmost of them.
FuncStarts(line) ==
    {p \in DOMAIN line :
        /\ FuncAt(line, p) # 0
        /\ \A m \in 1..(p - 1) : ~TokHas(line[m], "/")}

func_match(line) == FuncStarts(line) # {}

\* func_match.group(1)
func_name(line) ==
    LET p == CHOOSE x \in FuncStarts(line) : \A y \in FuncStarts(line) : y <= x
    IN  line[FuncAt(line, p)][2]

\* re.match(r'^\s*(if|while|for|switch)\s*\(', line)
ControlKeywords == {"if", "while", "for", "switch"}

control_match(line) ==
    LET k == SkipWs(line, 1)
    IN  /\ IsW(At(line, k))
        /\ At(line, k)[2] \in ControlKeywords
        /\ At(line, SkipWs(line, k + 1)) = P("(")

\* re.search(r'\belse\s+if\s*\(', line)
elif_match(line) ==
    \E p \in DOMAIN line :
        /\ line[p] = W("else")
        /\ IsS(At(line, p + 1))
        /\ LET q == SkipWs(line, p + 1)
           IN  /\ At(line, q) = W("if")
               /\ At(line, SkipWs(line, q + 1)) = P("(")

\* The words of the modelled texts that begin with the letters "if".
IfPrefixed == {"if"}

\* re.search(r'\belse\b(?!\s+if)', line)
else_match(line) ==
    \E p \in DOMAIN line :
        /\ line[p] = W("else")
        /\ ~ /\ IsS(At(line, p + 1))
             /\ LET t == At(line, SkipWs(line, p + 1))
                IN  IsW(t) /\ t[2] \in IfPrefixed

\* re.search(r'(?<!\belse\s)\bif\s*\(', line): the look-behind is five
\* characters wide, the word else and ONE whitespace character.
if_match(line) ==
    \E p \in DOMAIN line :
        /\ line[p] = W("if")
        /\ At(line, SkipWs(line, p + 1)) = P("(")
        /\ ~ (IsS(At(line, p - 1)) /\ At(line, p - 2) = W("else"))

\* The position of the first ':' of the line (Len + 1: none): line.split(':', 1)
FirstColon(line) ==
    CHOOSE j \in 1..(Len(line) + 1) :
        /\ \A m \in 1..(j - 1) : ~TokHas(line[m], ":")
        /\ j = Len(line) + 1 \/ TokHas(line[j], ":")

\* re.match(r'^(\s*)case\s+([^:]+):', line): \s+ and [^:]+ each take at least
\* one character between the word case and the first colon.
case_match(line) ==
    LET k == SkipWs(line, 1)
        c == FirstColon(line)
    IN  /\ At(line, k) = W("case")
        /\ IsS(At(line, k + 1))
        /\ c <= Len(line)
        /\ c >= k + 3

\* re.sub(r'[^a-zA-Z0-9_]', '_', s): a word is kept, any other character of
\* the modelled case values (whitespace, punctuation) becomes '_'.
RECURSIVE Sanitize(_)
Sanitize(toks) ==
    IF toks = <<>> THEN ""
    ELSE (IF IsW(Head(toks)) THEN Head(toks)[2] ELSE "_") \o Sanitize(Tail(toks))

\* case_match.group(2).strip(), sanitized
case_value(line) ==
    LET k == SkipWs(line, 1)
        c == FirstColon(line)
    IN  Sanitize(Strip(SubSeq(line, k + 1, c - 1)))

\* re.match(r'^(\s*)default\s*:', line)
default_match(line) ==
    LET k == SkipWs(line, 1)
    IN  /\ At(line, k) = W("default")
        /\ At(line, SkipWs(line, k + 1)) = P(":")

(***************************************************************************)
(* SimpleCoverageInstrumenter                                              *)
(***************************************************************************)
\* The string an id stands for.
IdText(id) == id[1] \o "_" \o id[2]

\* __init__: the instrumenter's fields and the locals of instrument.  Line
\* indexes are the code's (from 0); lines[i + 1] is the code's lines[i].
NewInstrumenter(source) ==
    [lines |-> source, i |-> 0, skip_until |-> -1, in_nocover_section |-> FALSE,
     instrumented_lines |-> <<>>, counter |-> 0, coverage_points |-> <<>>]

\* get_next_id: the id returned (the counter is advanced by the caller's
\* record update, see Registered).
get_next_id(st, prefix) == <<prefix, ToString(st.counter + 1)>>

\* find_opening_brace: the index of the first line with '{' among the
\* LookaheadWindow lines from start_line on, or -1 (None).
find_opening_brace(lines, start_line) ==
    LET last == (IF start_line + LookaheadWindow < Len(lines)
                 THEN start_line + LookaheadWindow ELSE Len(lines)) - 1
        found == {j \in start_line..last : LineHas(lines[j + 1], "{")}
    IN  IF found = {} THEN -1
        ELSE CHOOSE j \in found : \A x \in found : j <= x

\* instrumented_lines.append(line); i += 1
PassThrough(st) ==
    [st EXCEPT !.instrumented_lines = Append(@, st.lines[st.i + 1]),
               !.i = @ + 1]

NocoverStart(st) == [PassThrough(st) EXCEPT !.in_nocover_section = TRUE]

NocoverEnd(st) == [PassThrough(st) EXCEPT !.in_nocover_section = FALSE]

\* The prologue of an earlier run is copied up to and including its end marker.
SkipHeader(st) ==
    LET n == Len(st.lines)
        ends == {j \in st.i..(n - 1) : Contains(st.lines[j + 1], HEADER_END)}
        e == IF ends = {} THEN n ELSE CHOOSE j \in ends : \A x \in ends : j <= x
        upto == IF e < n THEN e + 1 ELSE n
    IN  [st EXCEPT !.instrumented_lines = @ \o SubSeq(st.lines, st.i + 1, upto),
                   !.i = e + 1]

\* The indentation of the probe that follows the brace line.
ProbeIndent(lines, brace_line) ==
    IF brace_line + 1 < Len(lines) /\ NonBlank(lines[brace_line + 2])
    THEN Spaces(LeadingWs(lines[brace_line + 2]))
    ELSE Spaces(DefaultIndent)

\* The lines from i to the brace line are copied, the point is registered and
\* its probe is written on a line of its own after the brace line.
InsertAfterBrace(st, cover_id, counter) ==
    LET brace_line == find_opening_brace(st.lines, st.i)
    IN  [st EXCEPT
            !.instrumented_lines =
                (@ \o SubSeq(st.lines, st.i + 1, brace_line + 1))
                \o <<ProbeIndent(st.lines, brace_line) \o <<ProbeTok(cover_id)>>>>,
            !.coverage_points = Append(@, cover_id),
            !.counter = counter,
            !.skip_until = brace_line + 1,
            !.i = brace_line + 1]

FunctionEntry(st) ==
    InsertAfterBrace(st, <<func_name(st.lines[st.i + 1]), "entry">>, st.counter)

ElseIfBranch(st) == InsertAfterBrace(st, get_next_id(st, "else"), st.counter + 1)

\* ElseBranch with the prefix of the if branch.
ElseBranch_AsIf(st) == InsertAfterBrace(st, get_next_id(st, "if"), st.counter + 1)

ElseBranch(st) == InsertAfterBrace(st, get_next_id(st, "else"), st.counter + 1)

IfBranch(st) == InsertAfterBrace(st, get_next_id(st, "if"), st.counter + 1)

\* CaseLabel with the point left out of coverage_points.
CaseLabel_Unregistered(st) ==
    LET line == st.lines[st.i + 1]
        c == FirstColon(line)
        rest == Strip(SubSeq(line, c + 1, Len(line)))
        cover_id == get_next_id(st, "case_" \o case_value(line))
        new == IF rest # <<>> /\ Head(rest) # P("{")
               THEN <<SubSeq(line, 1, c - 1)
                        \o <<P(":"), SP, ProbeTok(cover_id), SP>> \o rest>>
               ELSE <<line,
                      Spaces(LeadingWs(line) + DefaultIndent) \o <<ProbeTok(cover_id)>>>>
    IN  [st EXCEPT !.instrumented_lines = @ \o new,
                   !.counter = @ + 1,
                   !.i = @ + 1]

\* A case label: the probe is spliced after the colon when a statement other
\* than an opening brace follows it on the line, and else written on a new
\* line, DefaultIndent deeper than the label.
CaseLabel(st) ==
    LET line == st.lines[st.i + 1]
        c == FirstColon(line)
        rest == Strip(SubSeq(line, c + 1, Len(line)))
        cover_id == get_next_id(st, "case_" \o case_value(line))
        new == IF rest # <<>> /\ Head(rest) # P("{")
               THEN <<SubSeq(line, 1, c - 1)
                        \o <<P(":"), SP, ProbeTok(cover_id), SP>> \o rest>>
               ELSE <<line,
                      Spaces(LeadingWs(line) + DefaultIndent) \o <<ProbeTok(cover_id)>>>>
    IN  [st EXCEPT !.instrumented_lines = @ \o new,
                   !.coverage_points = Append(@, cover_id),
                   !.counter = @ + 1,
                   !.i = @ + 1]

\* DefaultLabel with the probe line forgotten.
DefaultLabel_NoProbe(st) ==
    LET line == st.lines[st.i + 1]
        cover_id == get_next_id(st, "default")
    IN  [st EXCEPT !.instrumented_lines = Append(@, line),
                   !.coverage_points = Append(@, cover_id),
                   !.counter = @ + 1,
                   !.i = @ + 1]

DefaultLabel(st) ==
    LET line == st.lines[st.i + 1]
        cover_id == get_next_id(st, "default")
    IN  [st EXCEPT
            !.instrumented_lines =
                @ \o <<line,
                       Spaces(LeadingWs(line) + DefaultIndent) \o <<ProbeTok(cover_id)>>>>,
            !.coverage_points = Append(@, cover_id),
            !.counter = @ + 1,
            !.i = @ + 1]

\* One pass of instrument's while loop.  A pattern whose opening brace is not
\* found falls through to the patterns after it.
InstrumentStep(st) ==
    LET line == st.lines[st.i + 1]
        braced == find_opening_brace(st.lines, st.i) # -1
    IN  IF Contains(line, NOCOVER_START) THEN NocoverStart(st)
        ELSE IF Contains(line, NOCOVER_END) THEN NocoverEnd(st)
        ELSE IF st.in_nocover_section THEN PassThrough(st)
        ELSE IF st.i < st.skip_until THEN PassThrough(st)
        ELSE IF Contains(line, HEADER_START) THEN SkipHeader(st)
        ELSE IF HasCover(line) THEN PassThrough(st)
        ELSE IF func_match(line) /\ ~control_match(line) /\ braced
             THEN FunctionEntry(st)
        ELSE IF elif_match(line) /\ braced THEN ElseIfBranch(st)
        ELSE IF else_match(line) /\ braced THEN ElseBranch(st)
        ELSE IF if_match(line) /\ braced THEN IfBranch(st)
        ELSE IF case_match(line) THEN CaseLabel(st)
        ELSE IF default_match(line) THEN DefaultLabel(st)
        ELSE PassThrough(st)

RECURSIVE InstrumentLoop(_)
InstrumentLoop(st) ==
    IF st.i < Len(st.lines) THEN InstrumentLoop(InstrumentStep(st)) ELSE st

\* SimpleCoverageInstrumenter(source).instrument(): the instrumenter after
\* the run; its instrumented_lines are the lines of the text returned.
instrument(source) == InstrumentLoop(NewInstrumenter(source))

(***************************************************************************)
(* generate_coverage_header                                                *)
(***************************************************************************)
\* Python's order of the strings the ids stand for, for the prefixes of the
\* modelled texts (none is a prefix of another) and counters below 10: by
\* prefix, then the digits before the word entry.
PrefixOrder == <<"case_1", "default", "else", "f", "g", "if">>

PrefixRank(x) == CHOOSE k \in DOMAIN PrefixOrder : PrefixOrder[k] = x

SuffixRank(x) == IF x = "entry" THEN 10 ELSE CHOOSE n \in 0..9 : ToString(n) = x

IdLess(a, b) ==
    \/ PrefixRank(a[1]) < PrefixRank(b[1])
    \/ a[1] = b[1] /\ SuffixRank(a[2]) < SuffixRank(b[2])

RECURSIVE Insert(_, _)
Insert(sorted_pts, id) ==
    IF sorted_pts = <<>> THEN <<id>>
    ELSE IF IdLess(id, Head(sorted_pts)) THEN <<id>> \o sorted_pts
    ELSE <<Head(sorted_pts)>> \o Insert(Tail(sorted_pts), id)

\* sorted(self.coverage_points)
RECURSIVE Sorted(_)
Sorted(points) ==
    IF points = <<>> THEN <<>>
    ELSE Insert(Sorted(SubSeq(points, 1, Len(points) - 1)), points[Len(points)])

\* The prologue as a text: it ends with a blank line and a newline, so its
\* last line is empty.
generate_coverage_header(points) ==
    LET sorted_points == Sorted(points)
    IN  <<  <<HEADER_START>>,
            <<REGISTRY_OPEN>>
                \o [k \in DOMAIN sorted_points |-> <<"lit", sorted_points[k]>>]
                \o <<REGISTRY_CLOSE>>,
            <<TOTAL_DECL, <<"n", ToString(Len(points))>>>>,
            <<RUNTIME_CODE>>,
            <<HEADER_END>>,
            <<>>,
            <<>>  >>

(***************************************************************************)
(* remove_coverage                                                         *)
(***************************************************************************)
\* Two words that deleted text leaves side by side are one word.
RECURSIVE MergeWords(_)
MergeWords(line) ==
    IF Len(line) < 2 THEN line
    ELSE IF IsW(line[1]) /\ IsW(line[2])
         THEN MergeWords(<<W(line[1][2] \o line[2][2])>> \o SubSeq(line, 3, Len(line)))
         ELSE <<line[1]>> \o MergeWords(Tail(line))

\* re.match(r'^\s*COVER\([^)]+\);\s*$', line)
standalone_match(line) ==
    /\ Cardinality({k \in DOMAIN line : ~IsS(line[k])}) = 1
    /\ \E k \in DOMAIN line : IsProbe(line[k])

\* Whether position k lies in a run of whitespace that touches a probe.
WsOfProbe(line, k) ==
    /\ IsS(line[k])
    /\ \E j \in DOMAIN line :
          /\ IsProbe(line[j])
          /\ \A m \in (IF j < k THEN (j + 1)..k ELSE k..(j - 1)) : IsS(line[m])

RECURSIVE Keep(_, _)
Keep(line, k) ==
    IF k > Len(line) THEN <<>>
    ELSE (IF IsProbe(line[k]) \/ WsOfProbe(line, k) THEN <<>> ELSE <<line[k]>>)
         \o Keep(line, k + 1)

\* re.sub(r'\s*COVER\([^)]+\);\s*', '', line): each probe goes, with the
\* whitespace on both its sides.
sub_cover(line) == MergeWords(Keep(line, 1))

\* One pass of the for loop over the lines.
RemoveLine(st, line) ==
    IF Contains(line, HEADER_START) THEN [st EXCEPT !.in_coverage_header = TRUE]
    ELSE IF Contains(line, HEADER_END) THEN [st EXCEPT !.in_coverage_header = FALSE]
    ELSE IF st.in_coverage_header THEN st
    ELSE IF HasCover(line) /\ standalone_match(line) THEN st
    ELSE [st EXCEPT !.cleaned_lines =
             Append(@, IF HasCover(line) THEN sub_cover(line) ELSE line)]

RECURSIVE RemoveLoop(_, _, _)
RemoveLoop(lines, k, st) ==
    IF k > Len(lines) THEN st
    ELSE RemoveLoop(lines, k + 1, RemoveLine(st, lines[k]))

\* TrimTrailing with an if for the while: one blank line is popped at most.
TrimTrailing_Once(cleaned_lines) ==
    IF cleaned_lines # <<>> /\ ~NonBlank(cleaned_lines[Len(cleaned_lines)])
    THEN SubSeq(cleaned_lines, 1, Len(cleaned_lines) - 1)
    ELSE cleaned_lines

\* while cleaned_lines and cleaned_lines[-1].strip() == '': cleaned_lines.pop()
RECURSIVE TrimTrailing(_)
TrimTrailing(cleaned_lines) ==
    IF cleaned_lines # <<>> /\ ~NonBlank(cleaned_lines[Len(cleaned_lines)])
    THEN TrimTrailing(SubSeq(cleaned_lines, 1, Len(cleaned_lines) - 1))
    ELSE cleaned_lines

\* '\n'.join(lines), read back as a text: no line at all is the empty
\* string, whose split is one empty line.
Join(lines) == IF lines = <<>> THEN << <<>> >> ELSE lines

remove_coverage(source) ==
    Join(TrimTrailing(
        RemoveLoop(source, 1,
                   [in_coverage_header |-> FALSE, cleaned_lines |-> <<>>]).cleaned_lines))

(***************************************************************************)
(* main                                                                    *)
(***************************************************************************)
\* a + b for two texts: the last line of a and the first of b are one line.
Concat(a, b) ==
    SubSeq(a, 1, Len(a) - 1) \o <<MergeWords(a[Len(a)] \o b[1])>> \o Tail(b)

\* main without --remove: the text written and the instrumenter's points.
main_instrument(source_code) ==
    LET instrumenter == instrument(remove_coverage(source_code))
    IN  [output |-> Concat(generate_coverage_header(instrumenter.coverage_points),
                           instrumenter.instrumented_lines),
         coverage_points |-> instrumenter.coverage_points]

\* main --remove
main_remove(source_code) == remove_coverage(source_code)

(***************************************************************************)
(* The program that the instrumented text is: the prologue's runtime       *)
(***************************************************************************)
\* std::unordered_set<std::string> __uncovered_points = {...}: a set of strings
RegistryInit(points) == {IdText(points[k]) : k \in DOMAIN points}

\* const size_t __total_points = len(self.coverage_points)
TotalInit(points) == Len(points)

\* The places <<line, token>> of the probe calls of a text outside its prologue.
RECURSIVE ProbePlaces(_, _, _)
ProbePlaces(text, k, in_header) ==
    IF k > Len(text) THEN {}
    ELSE IF Contains(text[k], HEADER_START) THEN ProbePlaces(text, k + 1, TRUE)
    ELSE IF Contains(text[k], HEADER_END) THEN ProbePlaces(text, k + 1, FALSE)
    ELSE (IF in_header THEN {}
          ELSE {<<k, j>> : j \in {x \in DOMAIN text[k] : IsProbe(text[k][x])}})
         \cup ProbePlaces(text, k + 1, in_header)

Probes(text) == ProbePlaces(text, 1, FALSE)

\* Erase that erases nothing.
Erase_Nothing(registry, point) == registry

\* void COVER(point): __uncovered_points.erase(point)
Erase(registry, point) == registry \ {point}

\* print_coverage_report: the counts printed, the division it evaluates
\* (dividend / divisor, in floating point) and the branch it takes.
print_coverage_report(total, registry) ==
    LET covered_count == total - Cardinality(registry)
    IN  [printed |-> TRUE,
         divided |-> TRUE,
         total |-> total,
         covered |-> covered_count,
         dividend |-> 100 * covered_count,
         divisor |-> total,
         outcome |-> IF registry = {} THEN "all covered" ELSE "uncovered listed"]

NoReport ==
    [printed |-> FALSE, divided |-> FALSE, total |-> 0, covered |-> 0, dividend |-> 0, divisor |-> 1,
     outcome |-> "none"]

(***************************************************************************)
(* Source texts                                                            *)
(***************************************************************************)
BlankLine == <<>>

FuncLine == <<W("int"), SP, W("f"), P("("), P(")"), SP, P("{")>>

IfLine == <<W("if"), SP, P("("), W("x"), P(")")>>

BraceLine == <<P("{")>>

StmtLine == <<SP, SP, W("x"), P(";")>>

ElseLine == <<P("}"), SP, W("else"), SP, P("{")>>

ElseIfLine == <<P("}"), SP, W("else"), SP, W("if"), SP, P("("), W("x"), P(")"), SP, P("{")>>

CaseLine == <<W("case"), SP, W("1"), P(":"), SP, W("x"), P(";")>>

DefaultLine == <<W("default"), P(":")>>

StartLine == <<NOCOVER_START>>

EndLine == <<NOCOVER_END>>

ProbeLine == <<SP, SP, ProbeTok(<<"f", "entry">>)>>

HeaderStartLine == <<HEADER_START>>

HeaderEndLine == <<HEADER_END>>

SourceLines ==
    {BlankLine, FuncLine, IfLine, BraceLine, StmtLine, ElseLine, ElseIfLine,
     CaseLine, DefaultLine, StartLine, EndLine, ProbeLine,
     HeaderStartLine, HeaderEndLine}

\* The texts of at most MaxLines lines.
Texts == UNION {[1..n -> SourceLines] : n \in 1..MaxLines}

(***************************************************************************)
(* The state machine: the operations applied to a text, one after another  *)
(***************************************************************************)
Idle ==
    /\ pc = "off"
    /\ uncovered = {}
    /\ total_points = 0
    /\ executed = {}
    /\ report = NoReport

Start(text) ==
    /\ src = text
    /\ ops = <<>>
    /\ out = text
    /\ prev = text
    /\ coverage_points = <<>>
    /\ Idle

Init == \E text \in Texts : Start(text)

\* SimpleCoverageInstrumenter(src).instrument()
Instrument ==
    /\ ops = <<>>
    /\ LET instrumenter == instrument(src)
       IN  /\ out' = instrumenter.instrumented_lines
           /\ coverage_points' = instrumenter.coverage_points
    /\ prev' = out
    /\ ops' = Append(ops, "instrument")
    /\ UNCHANGED <<src, pc, uncovered, total_points, executed, report>>

\* remove_coverage(src)
Remove ==
    /\ ops = <<>>
    /\ out' = remove_coverage(src)
    /\ prev' = out
    /\ ops' = Append(ops, "remove_coverage")
    /\ UNCHANGED <<src, coverage_points, pc, uncovered, total_points, executed, report>>

Next == Instrument \/ Remove

\* The two functions, each applied to a source text.
Spec == Init /\ [][Next]_vars

(***************************************************************************)
(* main, run again and again on the file it overwrites                     *)
(***************************************************************************)
FlowLines == {BlankLine, FuncLine, StmtLine, ElseLine, CaseLine, DefaultLine, ProbeLine}

FlowTexts == UNION {[1..n -> FlowLines] : n \in 1..MaxLines}

InitFlow == \E text \in FlowTexts : Start(text)

\* main without --remove, on the text as it stands (the file is overwritten)
MainInstrument ==
    /\ pc = "off"
    /\ Len(ops) < MaxRuns
    /\ LET written == main_instrument(out)
       IN  /\ out' = written.output
           /\ coverage_points' = written.coverage_points
    /\ prev' = out
    /\ ops' = Append(ops, "main")
    /\ UNCHANGED <<src, pc, uncovered, total_points, executed, report>>

\* main --remove, on the text as it stands
MainRemove ==
    /\ pc = "off"
    /\ Len(ops) < MaxRuns
    /\ out' = main_remove(out)
    /\ prev' = out
    /\ ops' = Append(ops, "main --remove")
    /\ UNCHANGED <<src, coverage_points, pc, uncovered, total_points, executed, report>>

NextFlow == MainInstrument \/ MainRemove

SpecFlow == InitFlow /\ [][NextFlow]_vars

(***************************************************************************)
(* The instrumented program, run                                           *)
(***************************************************************************)
RunLines == {FuncLine, StmtLine, ElseLine, CaseLine, DefaultLine}

RunTexts == UNION {[1..n -> RunLines] : n \in 1..MaxLines}

InitRun == \E text \in RunTexts : Start(text)

\* The program that main wrote starts: its globals are initialised.
ProgramStart ==
    /\ pc = "off"
    /\ ops # <<>>
    /\ ops[Len(ops)] = "main"
    /\ pc' = "running"
    /\ uncovered' = RegistryInit(coverage_points)
    /\ total_points' = TotalInit(coverage_points)
    /\ executed' = {}
    /\ UNCHANGED <<src, ops, out, prev, coverage_points, report>>

\* Control reaches the probe at place pl: COVER(id) runs.
Cover ==
    /\ pc = "running"
    /\ \E pl \in Probes(out) :
          /\ uncovered' = Erase(uncovered, IdText(out[pl[1]][pl[2]][2]))
          /\ executed' = executed \cup {pl}
    /\ UNCHANGED <<src, ops, out, prev, coverage_points, pc, total_points, report>>

\* The program exits: ~CoverageReporter prints the report.
ProgramExit ==
    /\ pc = "running"
    /\ pc' = "exited"
    /\ report' = print_coverage_report(total_points, uncovered)
    /\ UNCHANGED <<src, ops, out, prev, coverage_points, uncovered, total_points, executed>>

NextRun == MainInstrument \/ ProgramStart \/ Cover \/ ProgramExit

SpecRun == InitRun /\ [][NextRun]_vars

(***************************************************************************)
(* A suppressed span, with one construct before, inside and after it       *)
(***************************************************************************)
MaxPart == 1

SupLines == {FuncLine, IfLine, BraceLine, StmtLine, CaseLine, ProbeLine, HeaderStartLine}

Parts == UNION {[1..n -> SupLines] : n \in 0..MaxPart}

SupTexts ==
    {before \o <<StartLine>> \o inside \o <<EndLine>> \o after :
        before \in Parts, inside \in Parts, after \in Parts}

InitSup == \E text \in SupTexts : Start(text)

SpecSup == InitSup /\ [][Next]_vars

(***************************************************************************)
(* Scenario A: a function whose body holds an if with an else              *)
(***************************************************************************)
MaxIndent == 2

Call(name) == <<W(name), P("("), P(")"), P(";")>>

\* int f(){ if (x) { y(); } else { z(); } }
OneLineA ==
    << <<W("int"), SP, W("f"), P("("), P(")"), P("{"), SP>>
       \o IfLine \o <<SP, P("{"), SP>> \o Call("y") \o <<SP>>
       \o ElseLine \o <<SP>> \o Call("z") \o <<SP, P("}"), SP, P("}")>> >>

\* The same function, one construct to a line: u spaces to a level, the
\* function's and the if's brace last on the line or alone on the next line,
\* the else on the line of the closing brace or on the next line.
LayoutA(u, name, fnl, inl, enl) ==
    LET header == <<W("int"), SP, W(name), P("("), P(")")>>
    IN  (IF fnl THEN <<header, BraceLine>> ELSE <<header \o <<P("{")>>>>)
        \o (IF inl THEN <<Spaces(u) \o IfLine, Spaces(u) \o BraceLine>>
            ELSE <<Spaces(u) \o IfLine \o <<SP, P("{")>>>>)
        \o <<Spaces(2 * u) \o Call("y")>>
        \o (IF enl THEN <<Spaces(u) \o <<P("}")>>, Spaces(u) \o <<W("else"), SP, P("{")>>>>
            ELSE <<Spaces(u) \o ElseLine>>)
        \o <<Spaces(2 * u) \o Call("z"), Spaces(u) \o <<P("}")>>, <<P("}")>>>>

LinesA ==
    {LayoutA(u, name, fnl, inl, enl) :
        u \in 0..MaxIndent, name \in {"f", "g"},
        fnl \in BOOLEAN, inl \in BOOLEAN, enl \in BOOLEAN}

InitA == \E text \in LinesA \cup {OneLineA} : Start(text)

SpecA == InitA /\ [][Next]_vars

(***************************************************************************)
(* Switch statements: the label lines of a switch, alone on their line,    *)
(* with a statement or a brace after the colon, after other text on the    *)
(* line, and next to a keyword line whose brace is on a later line         *)
(***************************************************************************)
\* switch (v) {
SwitchLine == <<W("switch"), SP, P("("), W("v"), P(")"), SP, P("{")>>

\*   case 1:
CaseOnlyLine == <<SP, SP, W("case"), SP, W("1"), P(":")>>

\* case 1: {
CaseBraceLine == <<W("case"), SP, W("1"), P(":"), SP, P("{")>>

\* 'case 1: x; ', a blank at the end of the line
CaseTrailLine == <<W("case"), SP, W("1"), P(":"), SP, W("x"), P(";"), SP>>

\* case 1: if (x) {
CaseIfLine ==
    <<W("case"), SP, W("1"), P(":"), SP, W("if"), SP, P("("), W("x"), P(")"), SP, P("{")>>

\*   default: x;
DefaultStmtLine == <<SP, SP, W("default"), P(":"), SP, W("x"), P(";")>>

\* switch(v){ case 1: a(); break; default: b(); }
OneLineB ==
    <<W("switch"), P("("), W("v"), P(")"), P("{"), SP,
      W("case"), SP, W("1"), P(":"), SP, W("a"), P("("), P(")"), P(";"), SP,
      W("break"), P(";"), SP,
      W("default"), P(":"), SP, W("b"), P("("), P(")"), P(";"), SP, P("}")>>

SwitchLines ==
    {SwitchLine, CaseLine, CaseOnlyLine, CaseBraceLine, CaseTrailLine, CaseIfLine,
     DefaultLine, DefaultStmtLine, OneLineB, IfLine, BraceLine, StmtLine,
     StartLine, EndLine}

SwitchTexts == UNION {[1..n -> SwitchLines] : n \in 1..MaxLines}

InitSwitch == \E text \in SwitchTexts : Start(text)

SpecSwitch == InitSwitch /\ [][Next]_vars

(***************************************************************************)
(* What the properties speak of                                            *)
(***************************************************************************)
\* The text holds no prologue marker and no probe call.
Clean(text) ==
    \A k \in DOMAIN text :
        /\ ~Contains(text[k], HEADER_START)
        /\ ~Contains(text[k], HEADER_END)
        /\ ~HasCover(text[k])

NoCover(text) == \A k \in DOMAIN text : ~HasCover(text[k])

\* The text without the blank lines at its end.
LastNonBlank(text) ==
    LET full == {k \in DOMAIN text : NonBlank(text[k])}
    IN  IF full = {} THEN 0 ELSE CHOOSE k \in full : \A j \in full : j <= k

SameUpToTrailingBlanks(a, b) ==
    SubSeq(a, 1, LastNonBlank(a)) = SubSeq(b, 1, LastNonBlank(b))

\* The tokens of a text, in reading order.
RECURSIVE Flatten(_)
Flatten(text) == IF text = <<>> THEN <<>> ELSE Head(text) \o Flatten(Tail(text))

\* The ids of the probe calls of a text, in reading order.
ProbeIds(text) ==
    LET probes == SelectSeq(Flatten(text), IsProbe)
    IN  [k \in DOMAIN probes |-> probes[k][2]]

\* How many times 'COVER(' occurs in the text.
HoldsCover(t) == IsProbe(t) \/ t = RUNTIME_CODE

CoverCount(text) == Len(SelectSeq(Flatten(text), HoldsCover))

\* Whether line k of the text lies between a NOCOVER_START line and the
\* NOCOVER_END line that ends it, the two marker lines included.
Suppressed(text, k) ==
    \E a \in 1..k : \E b \in k..Len(text) :
        /\ Contains(text[a], NOCOVER_START)
        /\ Contains(text[b], NOCOVER_END)
        /\ \A m \in a..(b - 1) : ~Contains(text[m], NOCOVER_END)

SuppressedLines(text) ==
    LET ks == {k \in DOMAIN text : Suppressed(text, k)}
        Pick[k \in 0..Len(text)] ==
            IF k = 0 THEN <<>>
            ELSE IF k \in ks THEN Append(Pick[k - 1], text[k]) ELSE Pick[k - 1]
    IN  Pick[Len(text)]

\* a is b with some lines left out.
RECURSIVE IsSubSeq(_, _)
IsSubSeq(a, b) ==
    IF a = <<>> THEN TRUE
    ELSE IF b = <<>> THEN FALSE
    ELSE IF Head(a) = Head(b) THEN IsSubSeq(Tail(a), Tail(b))
    ELSE IsSubSeq(a, Tail(b))

(***************************************************************************)
(* Properties                                                              *)
(***************************************************************************)
\* C1: for a source text without prologue markers and probe calls, removing
\* the coverage from the text main wrote for it (the prologue, then the
\* instrumented body) gives the source text back, up to the blank lines at
\* its end.
C1_RoundTrip ==
    (ops = <<"main", "main --remove">> /\ Clean(src))
        => SameUpToTrailingBlanks(out, src)

\* C2: after a run of instrument no two entries of coverage_points are the
\* same string.
C2_UniqueIds ==
    ops = <<"instrument">>
        => \A j \in DOMAIN coverage_points : \A k \in DOMAIN coverage_points :
               j # k => IdText(coverage_points[j]) # IdText(coverage_points[k])

\* C3: for a source text without probe calls, the body instrument returns
\* holds as many COVER( calls as there are coverage points, and the ids of the
\* calls, read in order, are the registered points in order: one probe for
\* each registration and none without.
C3_ProbesAreThePoints ==
    (ops = <<"instrument">> /\ NoCover(src))
        => /\ CoverCount(out) = Len(coverage_points)
           /\ ProbeIds(out) = coverage_points

C3_Witness ==
    /\ ops = <<"instrument">>
    /\ NoCover(src)
    /\ Len(coverage_points) = 3
    /\ \E k \in DOMAIN out : Len(out[k]) > 1 /\ IsProbe(out[k][Len(out[k])])
    /\ \E k \in DOMAIN out : \E j \in DOMAIN out[k] :
           IsProbe(out[k][j]) /\ j < Len(out[k])

\* C4: instrument inserts no probe (and so registers no point) between a
\* NOCOVER_START line and the NOCOVER_END line that ends it, also when the
\* start marker lies between a construct's keyword line and its brace line.
C4_NoProbeInSuppressedSpan ==
    (ops = <<"instrument">> /\ NoCover(src))
        => \A k \in DOMAIN out : Suppressed(out, k) => ~HasCover(out[k])

\* C5: the lines of a suppressed span, markers included, are all in the
\* output of instrument and in the output of remove_coverage, unchanged and
\* in their order.
C5_SuppressedSpanKept ==
    (ops = <<"instrument">> \/ ops = <<"remove_coverage">>)
        => IsSubSeq(SuppressedLines(src), out)

\* C6 as stated: if every probe of the body has executed when the program
\* exits, the registry is empty and the percentage reported, 100 * covered /
\* total, is exactly 100.
C6_FullCoverage ==
    (pc = "exited" /\ executed = Probes(out))
        => /\ uncovered = {}
           /\ report.divisor # 0
           /\ report.dividend = 100 * report.divisor

\* C6, amended: the same, for a run that registered at least one point.
C6_FullCoverageOfSomePoints ==
    (pc = "exited" /\ executed = Probes(out) /\ total_points > 0)
        => /\ uncovered = {}
           /\ report.divisor # 0
           /\ report.dividend = 100 * report.divisor

C6_Witness ==
    /\ pc = "exited"
    /\ executed = Probes(out)
    /\ total_points = 3
    /\ report.covered = 3

\* C7: when no point was registered the report takes an outcome of its own,
\* 'no coverage points', and does not evaluate 100 * covered / total.
C7_ZeroTotalGuard ==
    (pc = "exited" /\ total_points = 0)
        => report.outcome = "no coverage points" /\ ~report.divided

\* C8: main, run on the text it wrote, writes the same text again.
C8_RepeatIsStable ==
    (Len(ops) >= 2 /\ ops[Len(ops)] = "main" /\ ops[Len(ops) - 1] = "main")
        => out = prev

\* C9: remove_coverage of a text without prologue markers and probe calls is
\* that text up to its last line that is not blank (the empty text when all
\* are blank): every line up to there is kept as it is.
C9_RemoveOfCleanText ==
    (ops = <<"remove_coverage">> /\ Clean(src))
        => \E k \in 0..Len(src) :
              /\ \A j \in (k + 1)..Len(src) : ~NonBlank(src[j])
              /\ k = 0 \/ NonBlank(src[k])
              /\ out = IF k = 0 THEN <<BlankLine>> ELSE SubSeq(src, 1, k)

C9_Witness ==
    /\ ops = <<"remove_coverage">>
    /\ Clean(src)
    /\ Len(src) = 3
    /\ src[2] = BlankLine
    /\ src[3] = BlankLine
    /\ out = <<FuncLine>>

\* For each probe call of the text, in reading order, the opening brace (the
\* first of the text is 1, the second 2, ...) of the innermost body that is
\* open where the call stands; 0 when no body is open there.
RECURSIVE Enclosing(_, _, _, _)
Enclosing(toks, open, opened, acc) ==
    IF toks = <<>> THEN acc
    ELSE LET t == Head(toks)
         IN  IF t = P("{")
             THEN Enclosing(Tail(toks), <<opened + 1>> \o open, opened + 1, acc)
             ELSE IF t = P("}")
             THEN Enclosing(Tail(toks), IF open = <<>> THEN open ELSE Tail(open),
                            opened, acc)
             ELSE IF IsProbe(t)
             THEN Enclosing(Tail(toks), open, opened,
                            Append(acc, IF open = <<>> THEN 0 ELSE Head(open)))
             ELSE Enclosing(Tail(toks), open, opened, acc)

\* Three points, for the function's entry, the if branch and the else branch;
\* three probe calls with these ids, no two the same; the first inside the
\* function's body, the second inside the if's, the third inside the else's.
ThreePointsInPlace ==
    /\ coverage_points = <<<<src[1][3][2], "entry">>, <<"if", "1">>, <<"else", "2">>>>
    /\ ProbeIds(out) = coverage_points
    /\ Cardinality({IdText(coverage_points[k]) : k \in DOMAIN coverage_points}) = 3
    /\ Enclosing(Flatten(out), <<>>, 0, <<>>) = <<1, 2, 3>>

InSpan(text, k) ==
    \E a \in 1..k :
        /\ Contains(text[a], NOCOVER_START)
        /\ \A m \in (a + 1)..(k - 1) : ~Contains(text[m], NOCOVER_END)

\* A case or default label starts at token k of the line.
IsLabelAt(line, k) ==
    \/ line[k] = W("case") /\ \E c \in (k + 1)..Len(line) : line[c] = P(":")
    \/ line[k] = W("default") /\ At(line, SkipWs(line, k + 1)) = P(":")

LabelsOn(line) == Cardinality({k \in DOMAIN line : IsLabelAt(line, k)})

\* The labels of the text outside its suppressed spans.
LabelCount(text) ==
    LET Sum[k \in 0..Len(text)] ==
            IF k = 0 THEN 0
            ELSE Sum[k - 1] + (IF InSpan(text, k) THEN 0 ELSE LabelsOn(text[k]))
    IN  Sum[Len(text)]

\* The id of a case or default point of the source text.
IsLabelId(id) ==
    /\ id[2] # "entry"
    /\ \/ id[1] = "default"
       \/ \E k \in DOMAIN src :
              case_match(src[k]) /\ id[1] = "case_" \o case_value(src[k])

LabelPointCount ==
    Cardinality({k \in DOMAIN coverage_points : IsLabelId(coverage_points[k])})

\* The line matches the function, the else-if, the else or the if pattern.
ConstructLine(line) ==
    \/ func_match(line) /\ ~control_match(line)
    \/ elif_match(line)
    \/ else_match(line)
    \/ if_match(line)

\* Every line that matches one of these patterns holds an opening brace.
BracesOnKeywordLines(text) ==
    \A k \in DOMAIN text : ConstructLine(text[k]) => LineHas(text[k], "{")

\* Line k begins, after its indentation, with a case or default label, lies
\* outside the suppressed spans and matches no other pattern.
LeadingLabelLines(text) ==
    {k \in DOMAIN text :
        /\ case_match(text[k]) \/ default_match(text[k])
        /\ ~InSpan(text, k)
        /\ ~ConstructLine(text[k])}

RECURSIVE SplicedFrom(_, _)
SplicedFrom(a, b) ==
    IF b = <<>> THEN a = <<>>
    ELSE \/ a # <<>> /\ Head(a) = Head(b) /\ SplicedFrom(Tail(a), Tail(b))
         \/ (IsProbe(Head(b)) \/ IsS(Head(b))) /\ SplicedFrom(a, Tail(b))

\* The line holds a probe call and, besides probe calls, only blanks.
ProbeOnly(line) ==
    /\ \E k \in DOMAIN line : IsProbe(line[k])
    /\ \A k \in DOMAIN line : IsProbe(line[k]) \/ IsS(line[k])

\* The text b is the text a with probe lines inserted between its lines and
\* probe calls spliced into its lines.
RECURSIVE AppendOnly(_, _)
AppendOnly(a, b) ==
    IF b = <<>> THEN a = <<>>
    ELSE \/ a # <<>> /\ SplicedFrom(Head(a), Head(b)) /\ AppendOnly(Tail(a), Tail(b))
         \/ ProbeOnly(Head(b)) /\ AppendOnly(a, Tail(b))

\* C12: the body instrument returns holds every line of the source text, in
\* order, unchanged or with probe text spliced into it, so that deleting the
\* inserted probe text and the inserted probe lines gives the source lines
\* back.
C12_AppendOnly == ops = <<"instrument">> => AppendOnly(src, out)

\* What follows the first colon of the line, without the blanks around it.
AfterColon(line) == Strip(SubSeq(line, FirstColon(line) + 1, Len(line)))

\* A statement follows the label's colon on the line; an opening brace is
\* not taken for one.
StatementFollows(line) == AfterColon(line) # <<>> /\ Head(AfterColon(line)) # P("{")

LabelLine(line) == case_match(line) \/ default_match(line)

\* Token p of the line is a probe spliced right after the label's colon and
\* before the statement of the line.
SplicedAfterColon(line, p) ==
    /\ LabelLine(line)
    /\ p = SkipWs(line, FirstColon(line) + 1)
    /\ SkipWs(line, p + 1) <= Len(line)

\* The line is a probe line, DefaultIndent deeper than the label line before
\* it, and no statement follows the colon of that label line.
OnLineAfterLabel(label, line) ==
    /\ LabelLine(label)
    /\ ~StatementFollows(label)
    /\ Len(line) = LeadingWs(label) + DefaultIndent + 1
    /\ LeadingWs(line) = Len(line) - 1

\* C13: the probe of a case or default label is spliced into the label's
\* line right after the colon when a statement follows the colon on that
\* line, and is else a line of its own directly after the label line, one
\* level deeper than the label.
C13_LabelProbePlacement ==
    ops = <<"instrument">> =>
        \A j \in DOMAIN out : \A p \in DOMAIN out[j] :
            (IsProbe(out[j][p]) /\ IsLabelId(out[j][p][2])) =>
                \/ SplicedAfterColon(out[j], p)
                \/ j > 1 /\ OnLineAfterLabel(out[j - 1], out[j])

====
